---- MODULE Spec2Model ----
(***************************************************************************)
(* Model of three programs of the repository, each with a specification   *)
(* of its own over the module's variables:                                 *)
(*   Spec         crates/etc-merge/src/lib.rs: the tree walker             *)
(*                (recurse_dir), the fingerprints it stores (Metadata) and *)
(*                the three-way diff (compute_diff)                        *)
(*   SpecCmdline  crates/kernel_cmdline/src/lib.rs: Parameter::parse,      *)
(*                CmdlineIter and the lookups of Cmdline                   *)
(*   SpecGc       crates/lib/src/bootc_composefs/gc.rs: composefs_gc       *)
(* The variables of the programs that are not running keep their idle      *)
(* values.  What follows describes the trees of etc-merge.                 *)
(*                                                                         *)
(* A directory is the sequence of its entries in the order dir.entries()   *)
(* enumerates them.  An entry is a record                                  *)
(*   name     file name (a number; numeric order is byte order)            *)
(*   kind     "file", "dir", "symlink" or "other" (socket, fifo, device)   *)
(*   data     the bytes of a regular file, the raw target of a symlink     *)
(*   mode     permission bits                                              *)
(*   opens    whether entry.open() succeeds; open(2) follows a symlink and *)
(*            fails on a dangling one, and fails with ENXIO on a socket    *)
(*   verity   what measure_verity_opt returns for the file entry.open()    *)
(*            yields: None, or Some(digest) of the opened file             *)
(*   children the entries of a directory                                   *)
(*                                                                         *)
(* String is a sequence of numbers: "" is <<>>.  Option is a sequence of   *)
(* length at most one: None is <<>>, Some(x) is <<x>>.  SHA-256 and the    *)
(* fs-verity digest are modelled as injective: a digest is its tagged      *)
(* preimage.                                                               *)
(***************************************************************************)
EXTENDS Integers, Sequences, FiniteSets, TLC

VARIABLES pristine_etc, current_etc, new_etc,
          pc, pristine_etc_files, current_etc_files, new_etc_files,
          current_iter, added, modified, removed, result,
          \* kernel_cmdline
          cmdline, iter, yielded, find_key, found,
          \* composefs_gc
          booted_verity, staged, dry_run, boot_entries, images_dir, state,
          images, img_bootloader_diff, state_dirs, state_img_diff, invoked

\* the variables of compute_diff other than pc and result
etc_vars == <<pristine_etc, current_etc, new_etc, pristine_etc_files,
              current_etc_files, new_etc_files, current_iter, added, modified,
              removed>>

\* the variables of the kernel command line
cmdline_vars == <<cmdline, iter, yielded, find_key, found>>

\* the variables of composefs_gc
gc_vars == <<booted_verity, staged, dry_run, boot_entries, images_dir, state,
             images, img_bootloader_diff, state_dirs, state_img_diff,
             invoked>>

vars == <<etc_vars, pc, result, cmdline_vars, gc_vars>>

(* ---------------------------- bounds ---------------------------------- *)

\* file names are 1..MaxName
MaxName == 2

(* ------------------------- Option and String --------------------------- *)

None == <<>>

Some(x) == <<x>>

EmptyString == <<>>

(* --------------------------- digests ----------------------------------- *)

\* hex::encode(hasher.finish()) of the bytes fed to the hasher
hex_sha256(bytes) == <<0>> \o bytes

\* measured_verity.to_hex() of a verity-enabled file with these bytes
verity_to_hex(bytes) == <<1>> \o bytes

\* n.to_le_bytes() of a w-byte integer
RECURSIVE to_le_bytes(_, _)
to_le_bytes(n, w) ==
    IF w = 0 THEN <<>> ELSE <<n % 256>> \o to_le_bytes(n \div 256, w - 1)

bool_as_u8(b) == IF b THEN 1 ELSE 0

\* the cap_std Metadata of an entry (lstat: a symlink is not followed)
entry_metadata(entry) ==
    [is_file    |-> entry.kind = "file",
     is_dir     |-> entry.kind = "dir",
     is_symlink |-> entry.kind = "symlink",
     len        |-> Len(entry.data),
     mode       |-> entry.mode]

\* mutant: the permission bits are left out of the hash
compute_metadata_hash_nomode(meta) ==
    LET ty == <<bool_as_u8(meta.is_file), bool_as_u8(meta.is_dir),
                bool_as_u8(meta.is_symlink)>>
        sz == IF ~meta.is_dir THEN to_le_bytes(meta.len, 8) ELSE <<>>
    IN hex_sha256(ty \o sz)

\* mutant: a directory gets no metadata hash
compute_metadata_hash_nodir(meta) ==
    LET ty == <<bool_as_u8(meta.is_file), bool_as_u8(meta.is_dir),
                bool_as_u8(meta.is_symlink)>>
    IN IF meta.is_dir THEN EmptyString
       ELSE hex_sha256(ty \o to_le_bytes(meta.len, 8) \o to_le_bytes(meta.mode, 4))

compute_metadata_hash(meta) ==
    LET ty == <<bool_as_u8(meta.is_file), bool_as_u8(meta.is_dir),
                bool_as_u8(meta.is_symlink)>>
        sz == IF ~meta.is_dir THEN to_le_bytes(meta.len, 8) ELSE <<>>
    IN hex_sha256(ty \o sz \o to_le_bytes(meta.mode, 4))

Metadata(content_hash, metadata_hash, verity) ==
    [content_hash |-> content_hash, metadata_hash |-> metadata_hash,
     verity |-> verity]

(* ----------------------------- Map ------------------------------------- *)

EmptyMap == <<>>

\* BTreeMap::insert: a later insert of the same key replaces the value
MapInsert(list, path, meta) == (path :> meta) @@ list

\* mutant: the matched key is not consumed
MapRemove_keep(list, path) == list

MapRemove(list, path) == [p \in (DOMAIN list) \ {path} |-> list[p]]

\* Ord of PathBuf: component by component, a proper prefix first
RECURSIVE PathLess(_, _)
PathLess(p, q) ==
    IF q = <<>> THEN FALSE
    ELSE IF p = <<>> THEN TRUE
    ELSE IF Head(p) # Head(q) THEN Head(p) < Head(q)
    ELSE PathLess(Tail(p), Tail(q))

\* mutant: the map is iterated from its last key
FirstKey_last(keys) == CHOOSE p \in keys : \A q \in keys \ {p} : PathLess(q, p)

\* the first key of a BTreeMap's iteration
FirstKey(keys) == CHOOSE p \in keys : \A q \in keys \ {p} : PathLess(p, q)

(* --------------------------- recurse_dir ------------------------------- *)

\* The for loop of recurse_dir from entry i on, with the loop's path
\* variable as it stands before entry i.  Returns ok = FALSE where the
\* code returns Err through `?`.  src is a history value the code does not
\* keep: the directory entry each key of list was inserted for.
RECURSIVE recurse_dir_from(_, _, _, _, _)
recurse_dir_from(dir, i, path, list, src) ==
    IF i > Len(dir) THEN [ok |-> TRUE, list |-> list, src |-> src]
    ELSE
      LET entry == dir[i]
          pushed == Append(path, entry.name)
      IN
      IF entry.kind = "dir" THEN
          LET inserted == MapInsert(list, pushed,
                              Metadata(EmptyString,
                                       compute_metadata_hash(entry_metadata(entry)),
                                       None))
              sub == recurse_dir_from(entry.children, 1, pushed, inserted,
                                      MapInsert(src, pushed, entry))
          IN IF sub.ok
             THEN recurse_dir_from(dir, i + 1, path, sub.list, sub.src)
             ELSE sub
      ELSE IF ~entry.opens THEN [ok |-> FALSE, list |-> list, src |-> src]
      ELSE IF entry.verity # None THEN
          recurse_dir_from(dir, i + 1, path,
              MapInsert(list, pushed,
                        Metadata(EmptyString, EmptyString, Some(entry.verity[1]))),
              MapInsert(src, pushed, entry))
      ELSE IF entry.kind \in {"symlink", "file"} THEN
          recurse_dir_from(dir, i + 1, path,
              MapInsert(list, pushed,
                        Metadata(hex_sha256(entry.data),
                                 compute_metadata_hash(entry_metadata(entry)),
                                 None)),
              MapInsert(src, pushed, entry))
      ELSE \* `continue` without path.pop(): the name stays on the path
          recurse_dir_from(dir, i + 1, pushed, list, src)

recurse_dir(dir, path, list) == recurse_dir_from(dir, 1, path, list, EmptyMap)

(* ------------------------- the input trees ----------------------------- *)

Names == 1..MaxName

\* contents of regular files
FileData == {<<1>>, <<2>>}

\* 0o644 and 0o400
FileModes == {420, 256}

\* raw symlink targets: two of one length, one longer
LinkTargets == {<<1>>, <<2>>, <<1, 1>>}

\* entries without a name yet (name 0)
FileTemplates ==
    {[name |-> 0, kind |-> "file", data |-> d, mode |-> m, opens |-> TRUE,
      verity |-> IF v THEN Some(verity_to_hex(d)) ELSE None,
      children |-> <<>>] : d \in FileData, m \in FileModes, v \in BOOLEAN}

\* a symlink is dangling, or points to a file without fs-verity, or points
\* to a verity-enabled file (whose bytes are <<1>>)
SymlinkTemplates ==
    {[name |-> 0, kind |-> "symlink", data |-> t, mode |-> 511,
      opens |-> r # "dangling",
      verity |-> IF r = "verity" THEN Some(verity_to_hex(<<1>>)) ELSE None,
      children |-> <<>>] : t \in LinkTargets, r \in {"dangling", "plain", "verity"}}

\* a device node (opens) or a socket (open fails with ENXIO)
OtherTemplates ==
    {[name |-> 0, kind |-> "other", data |-> <<>>, mode |-> 420, opens |-> o,
      verity |-> None, children |-> <<>>] : o \in BOOLEAN}

DirTemplates(childrenSet) ==
    {[name |-> 0, kind |-> "dir", data |-> <<>>, mode |-> 493, opens |-> TRUE,
      verity |-> None, children |-> c] : c \in childrenSet}

LeafTemplates == FileTemplates \cup SymlinkTemplates \cup OtherTemplates

\* a regular file with either content, or a device node
FillTemplates ==
    {t \in FileTemplates : t.mode = 420 /\ t.verity = None}
        \cup {t \in OtherTemplates : t.opens}

\* one regular file
PlainTemplates == {t \in FillTemplates : t.kind = "file" /\ t.data = <<1>>}

\* a subdirectory is empty or holds one entry
SubDirs == {<<>>} \cup {<<[t EXCEPT !.name = 1]>> : t \in FillTemplates}

\* the entries a tree may hold under the name n: every kind under the last
\* name, a file or a device node under the first, one file under the others
TemplatesFor(n) ==
    IF n = MaxName THEN LeafTemplates \cup DirTemplates(SubDirs)
    ELSE IF n = 1 THEN FillTemplates
    ELSE PlainTemplates

\* the directories that list a subset of the names n..MaxName in
\* ascending order
RECURSIVE ListingsFrom(_)
ListingsFrom(n) ==
    IF n > MaxName THEN {<<>>}
    ELSE LET rest == ListingsFrom(n + 1)
         IN rest \cup {<<[t EXCEPT !.name = n]>> \o r :
                          t \in TemplatesFor(n), r \in rest}

Trees == ListingsFrom(1)

NewTrees ==
    {<<>>} \cup {<<[t EXCEPT !.name = 1]>> :
                   t \in {t \in SymlinkTemplates : t.data = <<1>> /\ t.verity = None}}

(* ---------------------------- compute_diff ----------------------------- *)

\* no command line is being parsed
CmdlineIdle ==
    /\ cmdline = <<>>
    /\ iter = <<>>
    /\ yielded = <<>>
    /\ find_key = <<>>
    /\ found = None

\* no garbage collection is running
GcIdle ==
    /\ booted_verity = 0
    /\ staged = None
    /\ dry_run = FALSE
    /\ boot_entries = {}
    /\ images_dir = {}
    /\ state = {}
    /\ images = {}
    /\ img_bootloader_diff = {}
    /\ state_dirs = {}
    /\ state_img_diff = {}
    /\ invoked = {}

Init ==
    /\ pristine_etc \in Trees
    /\ current_etc \in Trees
    /\ new_etc \in NewTrees
    /\ pc = "walk_pristine"
    /\ pristine_etc_files = EmptyMap
    /\ current_etc_files = EmptyMap
    /\ new_etc_files = EmptyMap
    /\ current_iter = {}
    /\ added = <<>>
    /\ modified = <<>>
    /\ removed = <<>>
    /\ result = "none"
    /\ CmdlineIdle
    /\ GcIdle

\* compute_diff returns Err: a failed walk (`?`) or the bail!
Fail(kind) ==
    /\ pc' = "error"
    /\ result' = kind

WalkPristine ==
    /\ pc = "walk_pristine"
    /\ LET r == recurse_dir(pristine_etc, <<>>, EmptyMap)
       IN IF r.ok
          THEN /\ pristine_etc_files' = r.list
               /\ pc' = "walk_current"
               /\ UNCHANGED result
          ELSE /\ Fail("io_pristine")
               /\ UNCHANGED pristine_etc_files
    /\ UNCHANGED <<pristine_etc, current_etc, new_etc, current_etc_files,
                   new_etc_files, current_iter, added, modified, removed>>
    /\ UNCHANGED <<cmdline_vars, gc_vars>>

WalkCurrent ==
    /\ pc = "walk_current"
    /\ LET r == recurse_dir(current_etc, <<>>, EmptyMap)
       IN IF r.ok
          THEN /\ current_etc_files' = r.list
               /\ pc' = "walk_new"
               /\ UNCHANGED result
          ELSE /\ Fail("io_current")
               /\ UNCHANGED current_etc_files
    /\ UNCHANGED <<pristine_etc, current_etc, new_etc, pristine_etc_files,
                   new_etc_files, current_iter, added, modified, removed>>
    /\ UNCHANGED <<cmdline_vars, gc_vars>>

\* mutant: a failed walk of the new tree is ignored and the diff goes on
WalkNew_ignore ==
    /\ pc = "walk_new"
    /\ new_etc_files' = recurse_dir(new_etc, <<>>, EmptyMap).list
    /\ current_iter' = DOMAIN current_etc_files
    /\ pc' = "diff"
    /\ UNCHANGED <<pristine_etc, current_etc, new_etc, pristine_etc_files,
                   current_etc_files, added, modified, removed, result>>
    /\ UNCHANGED <<cmdline_vars, gc_vars>>

WalkNew ==
    /\ pc = "walk_new"
    /\ LET r == recurse_dir(new_etc, <<>>, EmptyMap)
       IN IF r.ok
          THEN /\ new_etc_files' = r.list
               /\ current_iter' = DOMAIN current_etc_files
               /\ pc' = "diff"
               /\ UNCHANGED result
          ELSE /\ Fail("io_new")
               /\ UNCHANGED <<new_etc_files, current_iter>>
    /\ UNCHANGED <<pristine_etc, current_etc, new_etc, pristine_etc_files,
                   current_etc_files, added, modified, removed>>
    /\ UNCHANGED <<cmdline_vars, gc_vars>>

\* the key the for loop over current_etc_files yields next
current_file == FirstKey(current_iter)

\* mutant: the lookup goes to the new tree's snapshot
old_meta_get_new(file) ==
    IF file \in DOMAIN new_etc_files THEN Some(new_etc_files[file]) ELSE None

\* pristine_etc_files.get(&file)
old_meta_get(file) ==
    IF file \in DOMAIN pristine_etc_files
    THEN Some(pristine_etc_files[file])
    ELSE None

\* mutant: a digest on one side only falls through to the hash comparison
verity_match_silent(current_verity, old_verity) ==
    IF current_verity # None /\ old_verity # None
          /\ current_verity[1] # old_verity[1]
    THEN "modified"
    ELSE "compare"

\* mutant: two digests always fall through to the hash comparison
verity_match_fallthrough(current_verity, old_verity) ==
    IF current_verity # None /\ old_verity # None THEN "compare"
    ELSE IF current_verity = None /\ old_verity = None THEN "compare"
    ELSE "bail"

\* the arm `match (&current_meta.verity, &old_meta.verity)` takes:
\* "modified" pushes and continues, "compare" falls through to the hash
\* comparison, "bail" returns the error
verity_match(current_verity, old_verity) ==
    IF current_verity # None /\ old_verity # None
    THEN IF current_verity[1] # old_verity[1] THEN "modified" ELSE "compare"
    ELSE IF current_verity = None /\ old_verity = None THEN "compare"
    ELSE "bail"

\* let Some(old_meta) = pristine_etc_files.get(&current_file) else { ... }
DiffAdded ==
    /\ pc = "diff"
    /\ current_iter # {}
    /\ old_meta_get(current_file) = None
    /\ added' = Append(added, current_file)
    /\ current_iter' = current_iter \ {current_file}
    /\ UNCHANGED <<pristine_etc, current_etc, new_etc, pc, pristine_etc_files,
                   current_etc_files, new_etc_files, modified, removed, result>>
    /\ UNCHANGED <<cmdline_vars, gc_vars>>

\* (None, Some(_)) | (Some(_), None) => bail!
DiffVerityMismatch ==
    /\ pc = "diff"
    /\ current_iter # {}
    /\ old_meta_get(current_file) # None
    /\ LET current_meta == current_etc_files[current_file]
           old_meta == old_meta_get(current_file)[1]
       IN verity_match(current_meta.verity, old_meta.verity) = "bail"
    /\ Fail("verity")
    /\ UNCHANGED <<pristine_etc, current_etc, new_etc, pristine_etc_files,
                   current_etc_files, new_etc_files, current_iter, added,
                   modified, removed>>
    /\ UNCHANGED <<cmdline_vars, gc_vars>>

\* (Some(v1), Some(v2)) with v1 != v2
DiffVerityModified ==
    /\ pc = "diff"
    /\ current_iter # {}
    /\ old_meta_get(current_file) # None
    /\ LET current_meta == current_etc_files[current_file]
           old_meta == old_meta_get(current_file)[1]
       IN verity_match(current_meta.verity, old_meta.verity) = "modified"
    /\ modified' = Append(modified, current_file)
    /\ pristine_etc_files' = MapRemove(pristine_etc_files, current_file)
    /\ current_iter' = current_iter \ {current_file}
    /\ UNCHANGED <<pristine_etc, current_etc, new_etc, pc, current_etc_files,
                   new_etc_files, added, removed, result>>
    /\ UNCHANGED <<cmdline_vars, gc_vars>>

\* mutant: only the metadata hashes are compared
DiffCompare_metaonly ==
    /\ pc = "diff"
    /\ current_iter # {}
    /\ old_meta_get(current_file) # None
    /\ LET current_meta == current_etc_files[current_file]
           old_meta == old_meta_get(current_file)[1]
       IN /\ verity_match(current_meta.verity, old_meta.verity) = "compare"
          /\ modified' =
                 IF old_meta.metadata_hash # current_meta.metadata_hash
                 THEN Append(modified, current_file)
                 ELSE modified
    /\ pristine_etc_files' = MapRemove(pristine_etc_files, current_file)
    /\ current_iter' = current_iter \ {current_file}
    /\ UNCHANGED <<pristine_etc, current_etc, new_etc, pc, current_etc_files,
                   new_etc_files, added, removed, result>>
    /\ UNCHANGED <<cmdline_vars, gc_vars>>

\* (Some(v1), Some(v2)) with v1 == v2, and (None, None): the hashes decide
DiffCompare ==
    /\ pc = "diff"
    /\ current_iter # {}
    /\ old_meta_get(current_file) # None
    /\ LET current_meta == current_etc_files[current_file]
           old_meta == old_meta_get(current_file)[1]
       IN /\ verity_match(current_meta.verity, old_meta.verity) = "compare"
          /\ modified' =
                 IF \/ old_meta.metadata_hash # current_meta.metadata_hash
                    \/ old_meta.content_hash # current_meta.content_hash
                 THEN Append(modified, current_file)
                 ELSE modified
    /\ pristine_etc_files' = MapRemove(pristine_etc_files, current_file)
    /\ current_iter' = current_iter \ {current_file}
    /\ UNCHANGED <<pristine_etc, current_etc, new_etc, pc, current_etc_files,
                   new_etc_files, added, removed, result>>
    /\ UNCHANGED <<cmdline_vars, gc_vars>>

\* BTreeMap::into_keys: the keys in order
RECURSIVE into_keys(_)
into_keys(keys) ==
    IF keys = {} THEN <<>>
    ELSE <<FirstKey(keys)>> \o into_keys(keys \ {FirstKey(keys)})

\* mutant: removed is taken from the snapshot of the new tree
DiffReturn_new ==
    /\ pc = "diff"
    /\ current_iter = {}
    /\ removed' = into_keys(DOMAIN new_etc_files)
    /\ pc' = "done"
    /\ result' = "ok"
    /\ UNCHANGED <<pristine_etc, current_etc, new_etc, pristine_etc_files,
                   current_etc_files, new_etc_files, current_iter, added,
                   modified>>
    /\ UNCHANGED <<cmdline_vars, gc_vars>>

\* the loop is over: removed, then Ok(Diff { added, modified, removed })
DiffReturn ==
    /\ pc = "diff"
    /\ current_iter = {}
    /\ removed' = into_keys(DOMAIN pristine_etc_files)
    /\ pc' = "done"
    /\ result' = "ok"
    /\ UNCHANGED <<pristine_etc, current_etc, new_etc, pristine_etc_files,
                   current_etc_files, new_etc_files, current_iter, added,
                   modified>>
    /\ UNCHANGED <<cmdline_vars, gc_vars>>

Next ==
    \/ WalkPristine
    \/ WalkCurrent
    \/ WalkNew
    \/ DiffAdded
    \/ DiffVerityMismatch
    \/ DiffVerityModified
    \/ DiffCompare
    \/ DiffReturn

Spec == Init /\ [][Next]_vars

(* ------------------------------ claims -------------------------------- *)

ToSet(seq) == {seq[i] : i \in DOMAIN seq}

\* the walks of the input trees, as compute_diff runs them
PristineWalk == recurse_dir(pristine_etc, <<>>, EmptyMap)

CurrentWalk == recurse_dir(current_etc, <<>>, EmptyMap)

\* the keys of both snapshots whose fingerprints carry a verity digest on
\* exactly one side
OneSidedVerity(pristine_list, current_list) ==
    {k \in DOMAIN pristine_list \cap DOMAIN current_list :
        (pristine_list[k].verity = None) # (current_list[k].verity = None)}

\* C1: when some path of both snapshots has a verity digest on exactly one
\* side, compute_diff returns no Diff: it never reaches Ok, and the run that
\* gets to that path ends in the inconsistency error.
C1_OneSidedVerityFails ==
    LET onesided == OneSidedVerity(PristineWalk.list, current_etc_files)
    IN /\ pc = "done" => onesided = {}
       /\ (pc = "diff" /\ current_iter = {}) => onesided = {}
       /\ result = "verity" => (pc = "error" /\ onesided # {})

C1_Witness ==
    /\ pc = "error"
    /\ result = "verity"
    /\ OneSidedVerity(PristineWalk.list, current_etc_files) # {}
    /\ added # <<>>

\* C2: in every Diff returned, added is exactly the keys of the current
\* snapshot that are not keys of the pristine snapshot, and none of them is
\* in modified or removed.
C2_AddedExact ==
    pc = "done" =>
        LET pristine_keys == DOMAIN PristineWalk.list
        IN /\ ToSet(added) = DOMAIN current_etc_files \ pristine_keys
           /\ ToSet(added) \cap ToSet(modified) = {}
           /\ ToSet(added) \cap ToSet(removed) = {}
           /\ ToSet(added) \cap pristine_keys = {}

C2_Witness ==
    /\ pc = "done"
    /\ added # <<>>
    /\ modified # <<>>
    /\ removed # <<>>

\* C3: in every Diff returned, removed is exactly the keys of the pristine
\* snapshot that are not keys of the current snapshot: every matched key is
\* consumed, modified or not, and no removed path is in added or modified.
C3_RemovedExact ==
    pc = "done" =>
        /\ ToSet(removed) = DOMAIN PristineWalk.list \ DOMAIN current_etc_files
        /\ ToSet(removed) \cap ToSet(added) = {}
        /\ ToSet(removed) \cap ToSet(modified) = {}
        /\ DOMAIN pristine_etc_files = ToSet(removed)

C3_Witness ==
    /\ pc = "done"
    /\ removed # <<>>
    /\ added = <<>>
    /\ modified # <<>>
    /\ \E k \in DOMAIN PristineWalk.list \cap DOMAIN current_etc_files :
           k \notin ToSet(modified)

\* C4 (as claimed): when the pristine and the current tree are identical,
\* compute_diff succeeds and all three lists of the Diff are empty.  The
\* new tree is empty, so only the walks of the two identical trees can fail.
C4_SelfDiffEmpty ==
    (pristine_etc = current_etc /\ new_etc = <<>>) =>
        /\ pc # "error"
        /\ pc = "done" => (added = <<>> /\ modified = <<>> /\ removed = <<>>)

\* the keys both walks stored for a regular file, with the same bytes and
\* different permission bits
PermChanged(pristine_src, current_src) ==
    {k \in DOMAIN pristine_src \cap DOMAIN current_src :
        /\ pristine_src[k].kind = "file"
        /\ current_src[k].kind = "file"
        /\ pristine_src[k].data = current_src[k].data
        /\ pristine_src[k].mode # current_src[k].mode}

\* C5 (as claimed): every regular file with identical bytes and different
\* permission bits on the two sides is in modified, verity digest or not.
C5_PermChangeModified ==
    pc = "done" =>
        \A k \in PermChanged(PristineWalk.src, CurrentWalk.src) :
            k \in ToSet(modified)

\* C5 (amended): in every Diff returned, such a file is in modified when
\* neither side exposes a verity digest, and is not in modified when both
\* sides expose the same digest.
C5_PermChangeModifiedNoVerity ==
    pc = "done" =>
        LET pristine_src == PristineWalk.src
            current_src == CurrentWalk.src
        IN \A k \in PermChanged(pristine_src, current_src) :
            /\ (pristine_src[k].verity = None /\ current_src[k].verity = None)
                  => k \in ToSet(modified)
            /\ (pristine_src[k].verity # None
                   /\ pristine_src[k].verity = current_src[k].verity)
                  => k \notin ToSet(modified)

C5_Witness ==
    /\ pc = "done"
    /\ \E k \in PermChanged(PristineWalk.src, CurrentWalk.src) :
          /\ PristineWalk.src[k].verity = None
          /\ CurrentWalk.src[k].verity = None
          /\ k \in ToSet(modified)
    /\ \E k \in DOMAIN PristineWalk.src \cap DOMAIN CurrentWalk.src :
          k \notin ToSet(modified)

\* every entry of the tree is a symlink
OnlySymlinks(dir) ==
    \A i \in DOMAIN dir : dir[i].kind = "symlink"

\* the root-level names that are a symlink in both trees, with different
\* targets
RetargetedLinks ==
    {n \in Names :
        \E i \in DOMAIN pristine_etc, j \in DOMAIN current_etc :
            /\ pristine_etc[i].name = n /\ current_etc[j].name = n
            /\ pristine_etc[i].kind = "symlink"
            /\ current_etc[j].kind = "symlink"
            /\ pristine_etc[i].data # current_etc[j].data}

\* C6 (as claimed): when a symlink has different targets on the two sides,
\* compute_diff succeeds and the path is in modified, whatever the targets
\* point to.  Success is claimed for trees that hold symlinks only.
C6_RetargetedLinkModified ==
    RetargetedLinks # {} =>
        /\ (OnlySymlinks(pristine_etc) /\ OnlySymlinks(current_etc)
               /\ new_etc = <<>>) => pc # "error"
        /\ pc = "done" => \A n \in RetargetedLinks : <<n>> \in ToSet(modified)

\* the tree with its sockets, fifos and devices absent
RECURSIVE without_unsupported(_)
without_unsupported(dir) ==
    IF dir = <<>> THEN <<>>
    ELSE LET entry == Head(dir)
             rest == without_unsupported(Tail(dir))
         IN IF entry.kind = "other" THEN rest
            ELSE IF entry.kind = "dir"
            THEN <<[entry EXCEPT !.children = without_unsupported(entry.children)]>>
                     \o rest
            ELSE <<entry>> \o rest

\* C7 (as claimed): a walk that succeeds over a tree holding unsupported
\* entries stores the snapshot of the tree without them: every directory,
\* file and symlink under its root-relative path.
C7_UnsupportedSkipped ==
    LET want == recurse_dir(without_unsupported(pristine_etc), <<>>, EmptyMap)
    IN pc = "walk_current" => pristine_etc_files = want.list

\* the fingerprints the three snapshots hold
Fingerprints ==
    {pristine_etc_files[k] : k \in DOMAIN pristine_etc_files}
        \cup {current_etc_files[k] : k \in DOMAIN current_etc_files}
        \cup {new_etc_files[k] : k \in DOMAIN new_etc_files}

\* C8 (as claimed): every fingerprint of a snapshot has a non-empty
\* metadata_hash.
C8_MetadataHashPresent ==
    \A m \in Fingerprints : m.metadata_hash # EmptyString

\* C8 (amended): a fingerprint without a verity digest has a non-empty
\* metadata_hash; a fingerprint with a verity digest has an empty
\* metadata_hash and an empty content_hash.
C8_MetadataHashPresentNoVerity ==
    \A m \in Fingerprints :
        /\ m.verity = None => m.metadata_hash # EmptyString
        /\ m.verity # None =>
              (m.metadata_hash = EmptyString /\ m.content_hash = EmptyString)

C8_Witness ==
    /\ pc = "walk_current"
    /\ \E k \in DOMAIN pristine_etc_files :
          /\ PristineWalk.src[k].kind = "dir"
          /\ pristine_etc_files[k].metadata_hash # EmptyString
    /\ \E k \in DOMAIN pristine_etc_files :
          /\ PristineWalk.src[k].kind = "file"
          /\ pristine_etc_files[k].verity = None

\* C9 (as claimed): in the snapshot of a walked tree verity is None for
\* every directory and symlink, and a regular file has either a verity
\* digest and no content_hash, or no digest and the hash of its bytes.
C9_VerityOnlyOnFiles ==
    pc = "walk_current" =>
        \A k \in DOMAIN pristine_etc_files :
            LET entry == PristineWalk.src[k]
                meta == pristine_etc_files[k]
            IN /\ entry.kind \in {"dir", "symlink"} => meta.verity = None
               /\ entry.kind = "file" =>
                     \/ meta.verity # None /\ meta.content_hash = EmptyString
                     \/ meta.verity = None
                           /\ meta.content_hash = hex_sha256(entry.data)

StrictlyIncreasing(paths) ==
    \A i \in 1..(Len(paths) - 1) : PathLess(paths[i], paths[i + 1])

\* C10: in every Diff returned, added, modified and removed are each in
\* strictly increasing path order.
C10_ListsSorted ==
    pc = "done" =>
        /\ StrictlyIncreasing(added)
        /\ StrictlyIncreasing(modified)
        /\ StrictlyIncreasing(removed)

C10_Witness ==
    /\ pc = "done"
    /\ Len(modified) >= 2
    /\ removed # <<>>

\* the walk of the new tree, as compute_diff runs it
NewWalk == recurse_dir(new_etc, <<>>, EmptyMap)

\* C11: compute_diff is all-or-nothing.  When the walk of any of the three
\* roots fails, the run ends in an error: it never starts classifying,
\* never returns Ok and hands out no list.  Ok is returned only in the
\* state where all three walks succeeded and the loop over the current
\* snapshot is exhausted.
C11_AllOrNothing ==
    LET walks_ok == PristineWalk.ok /\ CurrentWalk.ok /\ NewWalk.ok
    IN /\ (result = "ok") <=> (pc = "done")
       /\ pc = "done" => (walks_ok /\ current_iter = {})
       /\ ~walks_ok =>
             /\ pc \notin {"diff", "done"}
             /\ added = <<>> /\ modified = <<>> /\ removed = <<>>
       /\ result \in {"io_pristine", "io_current", "io_new"} =>
             (pc = "error" /\ ~walks_ok)
       /\ pc = "error" => removed = <<>>

\* the third walk fails after two snapshots were fingerprinted in full
C11_Witness ==
    /\ pc = "error"
    /\ result = "io_new"
    /\ pristine_etc_files # EmptyMap
    /\ current_etc_files # EmptyMap
    /\ new_etc_files = EmptyMap

\* the same tree with every directory listing enumerated in the opposite
\* order
RECURSIVE reverse_listing(_)
reverse_listing(dir) ==
    [i \in 1..Len(dir) |->
        LET entry == dir[Len(dir) + 1 - i]
        IN IF entry.kind = "dir"
           THEN [entry EXCEPT !.children = reverse_listing(entry.children)]
           ELSE entry]

\* C12 (as claimed): the snapshot a successful walk stores does not depend
\* on the order the directory listings enumerate their entries in: the walk
\* of the same tree enumerated in the opposite order succeeds as well and
\* stores the same snapshot, so compute_diff returns the same Diff.
C12_OrderIndependent ==
    pc = "walk_current" =>
        LET other == recurse_dir(reverse_listing(pristine_etc), <<>>, EmptyMap)
        IN /\ other.ok
           /\ other.list = pristine_etc_files

\* the keys of both snapshots whose fingerprints carry no verity digest
BothPlain(pristine_list, current_list) ==
    {k \in DOMAIN pristine_list \cap DOMAIN current_list :
        pristine_list[k].verity = None /\ current_list[k].verity = None}

\* C17: in every Diff returned, a path of both snapshots without a verity
\* digest on either side is in modified exactly when the metadata_hash or
\* the content_hash differs, and is never in added or removed.  A regular
\* file whose bytes changed is in modified, and so is a path whose entry
\* type changed.
C17_HashesDecide ==
    pc = "done" =>
        LET pristine == PristineWalk
            current == CurrentWalk
        IN \A k \in BothPlain(pristine.list, current.list) :
            LET old_meta == pristine.list[k]
                current_meta == current.list[k]
            IN /\ k \in ToSet(modified) <=>
                      \/ old_meta.metadata_hash # current_meta.metadata_hash
                      \/ old_meta.content_hash # current_meta.content_hash
               /\ k \notin ToSet(added) \cup ToSet(removed)
               /\ (/\ pristine.src[k].kind = "file"
                   /\ current.src[k].kind = "file"
                   /\ pristine.src[k].data # current.src[k].data)
                     => k \in ToSet(modified)
               /\ pristine.src[k].kind # current.src[k].kind
                     => k \in ToSet(modified)

\* a file whose bytes alone changed is modified, next to an unchanged path
C17_Witness ==
    /\ pc = "done"
    /\ \E k \in BothPlain(PristineWalk.list, current_etc_files) :
          /\ PristineWalk.src[k].kind = "file"
          /\ CurrentWalk.src[k].kind = "file"
          /\ PristineWalk.list[k].metadata_hash = current_etc_files[k].metadata_hash
          /\ PristineWalk.list[k].content_hash # current_etc_files[k].content_hash
          /\ k \in ToSet(modified)
    /\ \E k \in BothPlain(PristineWalk.list, current_etc_files) :
          /\ PristineWalk.list[k] = current_etc_files[k]
          /\ k \notin ToSet(added) \cup ToSet(modified) \cup ToSet(removed)

\* the keys of both snapshots whose fingerprints both carry a verity digest
BothVerity(pristine_list, current_list) ==
    {k \in DOMAIN pristine_list \cap DOMAIN current_list :
        pristine_list[k].verity # None /\ current_list[k].verity # None}

\* how many times the path is in the list
Occurrences(paths, k) == Cardinality({i \in DOMAIN paths : paths[i] = k})

\* C18: in every Diff returned, a path of both snapshots with a verity
\* digest on both sides is in modified exactly once when the digests are
\* unequal and not at all when they are equal, whatever the permission
\* bits and bytes of the two files are; it is never in added or removed.
C18_DigestsDecide ==
    pc = "done" =>
        LET pristine == PristineWalk
        IN \A k \in BothVerity(pristine.list, current_etc_files) :
            /\ Occurrences(modified, k) =
                  IF pristine.list[k].verity # current_etc_files[k].verity
                  THEN 1 ELSE 0
            /\ k \notin ToSet(added) \cup ToSet(removed)

\* two files with unequal digests under one path, which is modified
C18_Witness ==
    /\ pc = "done"
    /\ \E k \in BothVerity(PristineWalk.list, current_etc_files) :
          /\ PristineWalk.list[k].verity # current_etc_files[k].verity
          /\ Occurrences(modified, k) = 1
    /\ Len(modified) = 1

\* whether compute_diff's comparison tells the two fingerprints apart
Differs(old_meta, current_meta) ==
    IF old_meta.verity # None /\ current_meta.verity # None
          /\ old_meta.verity # current_meta.verity
    THEN TRUE
    ELSE \/ old_meta.metadata_hash # current_meta.metadata_hash
         \/ old_meta.content_hash # current_meta.content_hash

\* the Diff as a function of the pristine and the current snapshot alone
DiffOf(pristine_list, current_list) ==
    [added |-> into_keys(DOMAIN current_list \ DOMAIN pristine_list),
     modified |-> into_keys({k \in DOMAIN pristine_list \cap DOMAIN current_list :
                               Differs(pristine_list[k], current_list[k])}),
     removed |-> into_keys(DOMAIN pristine_list \ DOMAIN current_list)]

\* C19: every Diff returned is a function of the pristine and the current
\* tree alone: whatever the new tree holds, added, modified and removed are
\* the lists computed from the walks of the two other trees, so two runs
\* that differ in the new tree only return the same Diff.
C19_NewTreeIgnored ==
    pc = "done" =>
        [added |-> added, modified |-> modified, removed |-> removed]
            = DiffOf(PristineWalk.list, CurrentWalk.list)

\* the new tree holds a path that no list of a non-empty Diff mentions
C19_Witness ==
    /\ pc = "done"
    /\ \E k \in DOMAIN new_etc_files :
          /\ k \notin DOMAIN PristineWalk.list \cup DOMAIN current_etc_files
          /\ k \notin ToSet(added) \cup ToSet(modified) \cup ToSet(removed)
    /\ added # <<>>
    /\ removed # <<>>

\* C20 (as claimed): the walk of a tree that holds symlinks only succeeds,
\* dangling targets included, and the fingerprint of every symlink is the
\* hash of its raw target bytes and the hash of its own metadata, without
\* a verity digest, whatever the target points to.
C20_SymlinkNotFollowed ==
    OnlySymlinks(pristine_etc) =>
        /\ result # "io_pristine"
        /\ pc = "walk_current" =>
              \A k \in DOMAIN pristine_etc_files :
                  LET entry == PristineWalk.src[k]
                  IN pristine_etc_files[k] =
                         Metadata(hex_sha256(entry.data),
                                  compute_metadata_hash(entry_metadata(entry)),
                                  None)

(* ========================= kernel_cmdline ============================== *)
(* Model of crates/kernel_cmdline/src/lib.rs.  A byte is its value, a byte *)
(* slice is a sequence of bytes.  Positions are counted from 0 as in the   *)
(* code.  A Parameter is a record of parameter (the slice it was parsed    *)
(* from), key and value (an Option).                                       *)

\* command lines hold at most MaxLen bytes
MaxLen == 5

\* b'"'
DQUOTE == 34

\* b'='
EQUALS == 61

\* b'-'
DASH == 45

\* b'_'
UNDERSCORE == 95

\* the bytes of the command lines: a - _ = " and space
Bytes == {97, DASH, UNDERSCORE, EQUALS, DQUOTE, 32}

\* the keys looked up: A, and the keys of one byte or of a and one more
\* byte out of a - _
FindKeys ==
    LET KeyBytes == {97, DASH, UNDERSCORE}
    IN {<<65>>} \cup {<<b>> : b \in KeyBytes} \cup {<<97, b>> : b \in KeyBytes}

\* u8::is_ascii_whitespace: space, \t, \n, form feed, \r
is_ascii_whitespace(c) == c \in {32, 9, 10, 12, 13}

\* <[u8]>::trim_ascii_start
RECURSIVE trim_ascii_start(_)
trim_ascii_start(input) ==
    IF input # <<>> /\ is_ascii_whitespace(Head(input))
    THEN trim_ascii_start(Tail(input))
    ELSE input

\* Option::unwrap_or
unwrap_or(opt, default) == IF opt = None THEN default ELSE opt[1]

\* <[u8]>::split_at
split_at(input, mid) ==
    <<SubSeq(input, 1, mid), SubSeq(input, mid + 1, Len(input))>>

\* <[u8]>::strip_prefix of one byte
strip_prefix(input, byte) ==
    IF input # <<>> /\ Head(input) = byte THEN Some(Tail(input)) ELSE None

\* <[u8]>::strip_suffix of one byte
strip_suffix(input, byte) ==
    IF input # <<>> /\ input[Len(input)] = byte
    THEN Some(SubSeq(input, 1, Len(input) - 1))
    ELSE None

\* input.iter().position(|b| *b == byte), looking from the byte at i on
RECURSIVE position_from(_, _, _)
position_from(input, byte, i) ==
    IF i >= Len(input) THEN None
    ELSE IF input[i + 1] = byte THEN Some(i)
    ELSE position_from(input, byte, i + 1)

position(input, byte) == position_from(input, byte, 0)

\* mutant: whitespace ends the parameter inside double quotes as well
position_end_noquotes(input, i, in_quotes) ==
    LET ws == {j \in (i + 1)..Len(input) : is_ascii_whitespace(input[j])}
    IN IF ws = {} THEN None
       ELSE Some((CHOOSE j \in ws : \A k \in ws : j <= k) - 1)

\* the position the closure of Parameter::parse finds, looking from the
\* byte at i on with the closure's in_quotes as it stands
RECURSIVE position_end(_, _, _)
position_end(input, i, in_quotes) ==
    IF i >= Len(input) THEN None
    ELSE LET c == input[i + 1]
             toggled == IF c = DQUOTE THEN ~in_quotes ELSE in_quotes
         IN IF ~toggled /\ is_ascii_whitespace(c) THEN Some(i)
            ELSE position_end(input, i + 1, toggled)

\* value.strip_prefix(b"\"").unwrap_or(value)
\*      .strip_suffix(b"\"").unwrap_or(value)
strip_quotes(value) ==
    unwrap_or(strip_suffix(unwrap_or(strip_prefix(value, DQUOTE), value),
                           DQUOTE),
              value)

\* the Parameter built from one parameter's bytes: the match on `equals`
Parameter_from(input) ==
    LET equals == position(input, EQUALS)
    IN IF equals = None
       THEN [parameter |-> input, key |-> input, value |-> None]
       ELSE LET parts == split_at(input, equals[1])
            IN [parameter |-> input,
                key |-> parts[1],
                value |-> Some(strip_quotes(Tail(parts[2])))]

\* Parameter::parse: the parameter, if any, and the rest of the input
Parameter_parse(input) ==
    LET trimmed == trim_ascii_start(input)
    IN IF trimmed = <<>> THEN [param |-> None, rest |-> trimmed]
       ELSE LET end == unwrap_or(position_end(trimmed, 0, FALSE), Len(trimmed))
                parts == split_at(trimmed, end)
            IN [param |-> Some(Parameter_from(parts[1])), rest |-> parts[2]]

\* the closure dedashed of ParameterKey::eq
dedashed(c) == IF c = DASH THEN UNDERSCORE ELSE c

\* mutant: the two keys are compared over their common length (zip)
ParameterKey_eq_zip(self, other) ==
    \A i \in 1..Len(self) : i <= Len(other) => dedashed(self[i]) = dedashed(other[i])

\* ParameterKey::eq: Iterator::eq of the two dedashed byte iterators
ParameterKey_eq(self, other) ==
    [i \in 1..Len(self) |-> dedashed(self[i])]
        = [i \in 1..Len(other) |-> dedashed(other[i])]

\* self.iter().find(|p| p.key == key), the iterator standing at input
RECURSIVE iter_find(_, _)
iter_find(input, key) ==
    LET r == Parameter_parse(input)
    IN IF r.param = None THEN None
       ELSE IF ParameterKey_eq(r.param[1].key, key) THEN r.param
       ELSE iter_find(r.rest, key)

\* Cmdline::find
Cmdline_find(input, key) == iter_find(input, key)

\* ParameterStr::from: split_once('=') and the same strip chain
ParameterStr_from(parameter) ==
    LET equals == position(parameter, EQUALS)
    IN IF equals # None
       THEN [parameter |-> parameter,
             key |-> SubSeq(parameter, 1, equals[1]),
             value |-> Some(strip_quotes(
                           SubSeq(parameter, equals[1] + 2, Len(parameter))))]
       ELSE [parameter |-> parameter, key |-> parameter, value |-> None]

\* Parameter::to_str: every byte of the model is ASCII, so from_utf8 is Ok
Parameter_to_str(param) == Some(ParameterStr_from(param.parameter))

\* self.iter().filter_map(|p| p.to_str()).find(move |p| p.key == key)
RECURSIVE iter_find_str(_, _)
iter_find_str(input, key) ==
    LET r == Parameter_parse(input)
    IN IF r.param = None THEN None
       ELSE LET p == Parameter_to_str(r.param[1])
            IN IF p # None /\ ParameterKey_eq(p[1].key, key) THEN p
               ELSE iter_find_str(r.rest, key)

\* Cmdline::find_str
Cmdline_find_str(input, key) == iter_find_str(input, key)

\* the command lines of at most MaxLen bytes
RECURSIVE Inputs(_)
Inputs(n) ==
    IF n = 0 THEN {<<>>}
    ELSE LET shorter == Inputs(n - 1)
         IN shorter \cup {Append(input, b) : input \in shorter, b \in Bytes}

\* compute_diff is not running
EtcIdle ==
    /\ pristine_etc = <<>>
    /\ current_etc = <<>>
    /\ new_etc = <<>>
    /\ pristine_etc_files = EmptyMap
    /\ current_etc_files = EmptyMap
    /\ new_etc_files = EmptyMap
    /\ current_iter = {}
    /\ added = <<>>
    /\ modified = <<>>
    /\ removed = <<>>

\* Cmdline::from(input) and Cmdline::iter
InitCmdline ==
    /\ cmdline \in Inputs(MaxLen)
    /\ iter = cmdline
    /\ yielded = <<>>
    /\ find_key = <<>>
    /\ found = None
    /\ pc = "iter"
    /\ result = "none"
    /\ EtcIdle
    /\ GcIdle

\* CmdlineIter::next; yielded collects the parameters returned
IterNext ==
    /\ pc = "iter"
    /\ LET r == Parameter_parse(iter)
       IN /\ iter' = r.rest
          /\ IF r.param = None
             THEN pc' = "ended" /\ UNCHANGED yielded
             ELSE yielded' = Append(yielded, r.param[1]) /\ UNCHANGED pc
    /\ UNCHANGED <<cmdline, find_key, found, result, etc_vars, gc_vars>>

\* Cmdline::find with some key
Find ==
    /\ pc = "ended"
    /\ \E key \in FindKeys :
          /\ find_key' = key
          /\ found' = Cmdline_find(cmdline, key)
    /\ pc' = "found"
    /\ UNCHANGED <<cmdline, iter, yielded, result, etc_vars, gc_vars>>

\* Cmdline::find_str with some key
FindStr ==
    /\ pc = "ended"
    /\ \E key \in FindKeys :
          /\ find_key' = key
          /\ found' = Cmdline_find_str(cmdline, key)
    /\ pc' = "found_str"
    /\ UNCHANGED <<cmdline, iter, yielded, result, etc_vars, gc_vars>>

NextCmdline ==
    \/ IterNext
    \/ Find
    \/ FindStr

SpecCmdline == InitCmdline /\ [][NextCmdline]_vars

(* ------------------------ claims: kernel_cmdline ----------------------- *)

\* the parameters the iterator has returned and, after a lookup, the one
\* the lookup returned
ParsedParameters ==
    {yielded[i] : i \in DOMAIN yielded}
        \cup (IF pc \in {"found", "found_str"} /\ found # None
              THEN {found[1]} ELSE {})

\* the bytes of a key=value parameter after its first '='
RawValue(parameter) ==
    LET i == CHOOSE j \in DOMAIN parameter :
                 parameter[j] = EQUALS /\ \A k \in 1..(j - 1) : parameter[k] # EQUALS
    IN SubSeq(parameter, i + 1, Len(parameter))

\* one leading and one trailing double quote removed, each on its own
StripEach(raw) ==
    LET front == IF raw # <<>> /\ Head(raw) = DQUOTE THEN Tail(raw) ELSE raw
    IN IF front # <<>> /\ front[Len(front)] = DQUOTE
       THEN SubSeq(front, 1, Len(front) - 1)
       ELSE front

\* C13 (as claimed): the value of every key=value parameter returned by
\* the parser, as Parameter or as ParameterStr, is the text after the first
\* '=' without its leading double quote, if it starts with one, and without
\* its trailing double quote, if it ends with one.  Texts of two bytes and
\* more are looked at, where the two quotes cannot be one and the same.
C13_QuotesStrippedEach ==
    \A p \in ParsedParameters :
        (p.value # None /\ Len(RawValue(p.parameter)) >= 2) =>
            p.value[1] = StripEach(RawValue(p.parameter))

\* the byte at i is ASCII whitespace outside double quotes: the double
\* quotes before it pair up
Separator(input, i) ==
    /\ is_ascii_whitespace(input[i])
    /\ Cardinality({j \in 1..(i - 1) : input[j] = DQUOTE}) % 2 = 0

\* where the parameters of the input start: at a byte that is no separator
\* and follows a separator or nothing
TokenStarts(input) ==
    {i \in DOMAIN input :
        ~Separator(input, i) /\ (i = 1 \/ Separator(input, i - 1))}

\* the parameter that starts at i: the bytes up to the next separator
TokenAt(input, i) ==
    LET last == CHOOSE e \in i..Len(input) :
                    /\ \A j \in i..e : ~Separator(input, j)
                    /\ (e = Len(input) \/ Separator(input, e + 1))
    IN SubSeq(input, i, last)

\* the parameters of the input in input order
RECURSIVE TokensOf(_, _)
TokensOf(input, starts) ==
    IF starts = {} THEN <<>>
    ELSE LET first == CHOOSE i \in starts : \A j \in starts : i <= j
         IN <<TokenAt(input, first)>> \o TokensOf(input, starts \ {first})

Tokens(input) == TokensOf(input, TokenStarts(input))

OnlyWhitespace(input) == \A i \in DOMAIN input : is_ascii_whitespace(input[i])

\* C14: Parameter::parse returns None exactly for an input that is empty or
\* ASCII whitespace only, with an empty rest.  Otherwise it returns the
\* parameter that starts at the first byte that is no whitespace and ends
\* before the first whitespace byte outside double quotes, and as rest the
\* input from that whitespace byte on, which is shorter than the input.
\* The iterator's input is always a suffix of the command line, the
\* parameters it has returned are the first parameters of the command line
\* in input order, and it ends with None after the last one.  The states
\* looked at are those of the iteration; a lookup leaves them as they are.
C14_ParseIterates ==
    pc \in {"iter", "ended"} =>
        LET r == Parameter_parse(iter)
            skipped == Len(iter) - Len(trim_ascii_start(iter))
            tokens == Tokens(cmdline)
        IN /\ (r.param = None) <=> OnlyWhitespace(iter)
           /\ r.param = None => r.rest = <<>>
           /\ r.param # None =>
                 LET parameter == r.param[1].parameter
                 IN /\ parameter # <<>>
                    /\ ~is_ascii_whitespace(parameter[1])
                    /\ OnlyWhitespace(SubSeq(iter, 1, skipped))
                    /\ iter = SubSeq(iter, 1, skipped) \o parameter \o r.rest
                    /\ parameter = TokenAt(iter, skipped + 1)
                    /\ r.rest # <<>> => is_ascii_whitespace(r.rest[1])
                    /\ Len(r.rest) < Len(iter)
           /\ iter = SubSeq(cmdline, Len(cmdline) - Len(iter) + 1, Len(cmdline))
           /\ Len(yielded) <= Len(tokens)
           /\ \A i \in DOMAIN yielded : yielded[i].parameter = tokens[i]
           /\ pc = "ended" => (Len(yielded) = Len(tokens) /\ iter = <<>>)

\* the iterator ended after two parameters, one of them with whitespace
\* inside double quotes
C14_Witness ==
    /\ pc = "ended"
    /\ Len(yielded) = 2
    /\ \E i \in DOMAIN yielded :
          \E j \in DOMAIN yielded[i].parameter :
              is_ascii_whitespace(yielded[i].parameter[j])
    /\ is_ascii_whitespace(cmdline[1])

\* the two keys have the same length and agree byte for byte once every
\* '-' is read as '_'
SameKey(a, b) ==
    /\ Len(a) = Len(b)
    /\ \A i \in DOMAIN a :
          (IF a[i] = DASH THEN UNDERSCORE ELSE a[i])
              = (IF b[i] = DASH THEN UNDERSCORE ELSE b[i])

\* the keys in sight: of the parameters returned and of the lookup
KeysInSight == {yielded[i].key : i \in DOMAIN yielded} \cup {find_key}

\* C15: ParameterKey equality holds exactly between keys of the same length
\* that agree byte for byte with '-' read as '_'; it is reflexive,
\* symmetric and transitive, never holds between a key and a proper prefix
\* of it, and tells a from A.  Cmdline::find returns the first parameter in
\* input order whose key equals the key looked up, and None when there is
\* none.  The keys are those of a command line parsed to its end and the
\* key looked up in it.
C15_KeyEquality ==
    pc = "found" =>
        LET keys == KeysInSight
            equal == {ab \in keys \X keys : ParameterKey_eq(ab[1], ab[2])}
            matches == {i \in DOMAIN yielded : SameKey(yielded[i].key, find_key)}
        IN /\ \A a \in keys, b \in keys :
                 /\ <<a, b>> \in equal <=> SameKey(a, b)
                 /\ <<a, a>> \in equal
                 /\ <<a, b>> \in equal => <<b, a>> \in equal
                 /\ (Len(a) < Len(b) /\ a = SubSeq(b, 1, Len(a)))
                       => <<a, b>> \notin equal
                 /\ \A c \in keys :
                       (<<a, b>> \in equal /\ <<b, c>> \in equal)
                           => <<a, c>> \in equal
           /\ ~ParameterKey_eq(<<97>>, <<65>>)
           /\ IF matches = {} THEN found = None
              ELSE found = Some(yielded[CHOOSE i \in matches :
                                            \A j \in matches : i <= j])

\* the lookup of a_ returns a parameter spelled a-, the first of two
\* parameters whose keys equal the key looked up
C15_Witness ==
    /\ pc = "found"
    /\ found # None
    /\ found[1].key # find_key
    /\ found[1] = yielded[1]
    /\ \E i \in DOMAIN yielded :
          /\ i > 1
          /\ ParameterKey_eq(yielded[i].key, find_key)
          /\ yielded[i].key # yielded[1].key

(* ============================ composefs_gc ============================= *)
(* Model of crates/lib/src/bootc_composefs/gc.rs.  A deployment is named   *)
(* by its verity, a number.  The disk holds boot_entries (the verities of  *)
(* the bootloader entries), images_dir (the names in composefs/images) and *)
(* state (the directories of the state directory); staged is the staged    *)
(* deployment of the host status.  images, img_bootloader_diff, state_dirs *)
(* and state_img_diff are the locals of composefs_gc; of the two diffs the *)
(* model keeps what the loop has still to visit.  Every call that returns  *)
(* a Result may fail.  delete_image, delete_state_dir and delete_staged    *)
(* are defined in delete.rs: a call that returns Ok leaves its target      *)
(* absent, and does nothing in a dry run.  invoked is a history the code   *)
(* does not keep: the calls of delete_image and delete_state_dir made so   *)
(* far, each with the verity it was given.                                 *)

\* deployments are 1..MaxVerity
MaxVerity == 3

Verities == 1..MaxVerity

\* delete_image(&sysroot, verity, dry_run) returning Ok
delete_image(dir, verity, dry) == IF dry THEN dir ELSE dir \ {verity}

\* delete_state_dir(&sysroot, verity, dry_run) returning Ok
delete_state_dir(dir, verity, dry) == IF dry THEN dir ELSE dir \ {verity}

\* delete_staged(staged, dry_run) returning Ok
delete_staged(entry, dry) == IF dry THEN entry ELSE None

InitGc ==
    /\ booted_verity \in Verities
    /\ staged \in {None} \cup {Some(v) : v \in Verities \ {booted_verity}}
    /\ dry_run \in BOOLEAN
    /\ boot_entries \in SUBSET Verities
    /\ images_dir \in SUBSET Verities
    /\ state \in SUBSET Verities
    /\ images = {}
    /\ img_bootloader_diff = {}
    /\ state_dirs = {}
    /\ state_img_diff = {}
    /\ invoked = {}
    /\ pc = "list"
    /\ result = "none"
    /\ EtcIdle
    /\ CmdlineIdle

\* composefs_gc returns Err
GcFail(kind) ==
    /\ pc' = "error"
    /\ result' = kind

\* the status, the two listings, img_bootloader_diff and the check of the
\* booted deployment
GcList ==
    /\ pc = "list"
    /\ \/ /\ GcFail("io")
          /\ UNCHANGED <<images, img_bootloader_diff>>
       \/ LET listed == images_dir
              diff == {i \in listed : i \notin boot_entries}
          IN IF booted_verity \in diff
             THEN /\ GcFail("inconsistent")
                  /\ UNCHANGED <<images, img_bootloader_diff>>
             ELSE /\ images' = listed
                  /\ img_bootloader_diff' = diff
                  /\ pc' = "orphans"
                  /\ UNCHANGED result
    /\ UNCHANGED <<booted_verity, staged, dry_run, boot_entries, images_dir,
                   state, state_dirs, state_img_diff, invoked, etc_vars,
                   cmdline_vars>>

\* the call helper(&sysroot, verity, dry_run)
Call(helper, verity) == [helper |-> helper, verity |-> verity]

\* mutant: the state directory of an orphaned image is left in place
GcDeleteOrphan_imageonly ==
    /\ pc = "orphans"
    /\ \E verity \in img_bootloader_diff :
          /\ staged' = delete_staged(staged, dry_run)
          /\ images_dir' = delete_image(images_dir, verity, dry_run)
          /\ invoked' = invoked \cup {Call("delete_image", verity)}
          /\ img_bootloader_diff' = img_bootloader_diff \ {verity}
    /\ UNCHANGED <<booted_verity, dry_run, boot_entries, images, state, pc,
                   result, state_dirs, state_img_diff, etc_vars, cmdline_vars>>

\* one round of `for verity in &img_bootloader_diff`: the three deletions,
\* each of which may fail and end the run there
GcDeleteOrphan ==
    /\ pc = "orphans"
    /\ \E verity \in img_bootloader_diff :
       \E failed \in {"none", "delete_staged", "delete_image", "delete_state_dir"} :
          /\ staged' = IF failed = "delete_staged" THEN staged
                       ELSE delete_staged(staged, dry_run)
          /\ images_dir' = IF failed \in {"delete_staged", "delete_image"}
                           THEN images_dir
                           ELSE delete_image(images_dir, verity, dry_run)
          /\ state' = IF failed = "none"
                      THEN delete_state_dir(state, verity, dry_run)
                      ELSE state
          /\ invoked' = invoked
                 \cup (IF failed = "delete_staged" THEN {}
                       ELSE {Call("delete_image", verity)})
                 \cup (IF failed \in {"none", "delete_state_dir"}
                       THEN {Call("delete_state_dir", verity)} ELSE {})
          /\ IF failed = "none"
             THEN /\ img_bootloader_diff' = img_bootloader_diff \ {verity}
                  /\ UNCHANGED <<pc, result>>
             ELSE /\ GcFail("io")
                  /\ UNCHANGED img_bootloader_diff
    /\ UNCHANGED <<booted_verity, dry_run, boot_entries, images, state_dirs,
                   state_img_diff, etc_vars, cmdline_vars>>

\* list_state_dirs and state_img_diff, filtered with the images listed at
\* the start
GcListStateDirs ==
    /\ pc = "orphans"
    /\ img_bootloader_diff = {}
    /\ \/ /\ GcFail("io")
          /\ UNCHANGED <<state_dirs, state_img_diff>>
       \/ /\ state_dirs' = state
          /\ state_img_diff' = {d \in state : d \notin images}
          /\ pc' = "state_dirs"
          /\ UNCHANGED result
    /\ UNCHANGED <<booted_verity, staged, dry_run, boot_entries, images_dir,
                   state, images, img_bootloader_diff, invoked, etc_vars,
                   cmdline_vars>>

\* one round of `for verity in &state_img_diff`
GcDeleteStateDir ==
    /\ pc = "state_dirs"
    /\ \E verity \in state_img_diff :
       \E failed \in {"none", "delete_staged", "delete_state_dir"} :
          /\ staged' = IF failed = "delete_staged" THEN staged
                       ELSE delete_staged(staged, dry_run)
          /\ state' = IF failed = "none"
                      THEN delete_state_dir(state, verity, dry_run)
                      ELSE state
          /\ invoked' = invoked
                 \cup (IF failed = "delete_staged" THEN {}
                       ELSE {Call("delete_state_dir", verity)})
          /\ IF failed = "none"
             THEN /\ state_img_diff' = state_img_diff \ {verity}
                  /\ UNCHANGED <<pc, result>>
             ELSE /\ GcFail("io")
                  /\ UNCHANGED state_img_diff
    /\ UNCHANGED <<booted_verity, dry_run, boot_entries, images_dir, images,
                   img_bootloader_diff, state_dirs, etc_vars, cmdline_vars>>

\* get_imginfo and the repository's gc of objects, then Ok(())
GcObjects ==
    /\ pc = "state_dirs"
    /\ state_img_diff = {}
    /\ \/ GcFail("io")
       \/ pc' = "done" /\ result' = "ok"
    /\ UNCHANGED <<gc_vars, etc_vars, cmdline_vars>>

NextGc ==
    \/ GcList
    \/ GcDeleteOrphan
    \/ GcListStateDirs
    \/ GcDeleteStateDir
    \/ GcObjects

SpecGc == InitGc /\ [][NextGc]_vars

(* ------------------------- claims: composefs_gc ------------------------ *)

\* C16: when composefs_gc returns Ok and was no dry run, every image left
\* has a bootloader entry and every state directory left has an image: the
\* images left are the images listed at the start that have a bootloader
\* entry, so every orphaned image is gone, its state directory with it,
\* and so is every state directory that had no image.
C16_GcRepairs ==
    (pc = "done" /\ ~dry_run) =>
        /\ images_dir \subseteq boot_entries
        /\ state \subseteq images_dir
        /\ images_dir = images \cap boot_entries
        /\ state \cap (images \ boot_entries) = {}
        /\ state \cap (state_dirs \ images) = {}

\* Ok after an orphaned image and a state directory without an image were
\* found, with the booted deployment left whole
C16_Witness ==
    /\ pc = "done"
    /\ ~dry_run
    /\ images \ boot_entries # {}
    /\ state_dirs \ images # {}
    /\ booted_verity \in boot_entries \cap images_dir \cap state

\* C21 (as claimed): no run of composefs_gc calls delete_image or
\* delete_state_dir with the verity of the booted deployment, and a run
\* that ends in the 'Inconsistent state' error has made no such call at
\* all.
C21_BootedNeverDeleted ==
    /\ \A call \in invoked : call.verity # booted_verity
    /\ result = "inconsistent" => invoked = {}

====
